---- MODULE Spec2Model ----
(***************************************************************************)
(* River Ride: the simulation core of the terminal game.                   *)
(*                                                                         *)
(* Two program variants are modelled.  The endless (scrolling) variant is  *)
(* src/main.go; the reach-the-top variant is src/unnamed/part_001.  Each   *)
(* is a bubbletea program: a model value m, an Update handler that is run  *)
(* on one message at a time, and commands (timer ticks) that Update hands  *)
(* back to the runtime.  Definitions of the reach-the-top variant carry    *)
(* the suffix Top.                                                         *)
(*                                                                         *)
(* Coordinates and row/column indices are 0-based as in the source; the    *)
(* terrain is a sequence of rows, so cell (x, y) is Terrain[y+1][x+1].     *)
(* Calls of math/rand are inputs of the operators that make them.          *)
(***************************************************************************)
EXTENDS Integers, Sequences, FiniteSets, TLC

VARIABLES
    m,             \* the bubbletea model value (struct model)
    pendingTicks,  \* tea.Tick commands scheduled and not yet delivered
    fault,         \* TRUE once Update has panicked (the program is dead)
    ev             \* the kind of the last message handled by Update

vars == <<m, pendingTicks, fault, ev>>

---------------------------------------------------------------------------
(* Program constants *)

Land == 0
River == 1

TitleScreen == 0
Playing == 1
GameOver == 2
Win == 3

ScrollInterval == 5      \* the literal in "if m.world.ScrollTicker >= 5"
StatusLines == 2         \* "height := m.height - 2 // Account for status area"

---------------------------------------------------------------------------
(* Bounds of the model *)

MaxScore == 1     \* Score is not driven beyond this value
MaxPending == 2   \* timer ticks in flight are not driven beyond this value

---------------------------------------------------------------------------
(* Helpers *)

Min(S) == CHOOSE x \in S : \A y \in S : x <= y
Max(S) == CHOOSE x \in S : \A y \in S : x >= y

\* int(math.Sin(float64(y)/5) * 10) for y = 0..40 (conversion truncates toward 0)
SinTable ==
    << 0, 1, 3, 5, 7, 8, 9, 9, 9, 9, 9, 8, 6, 5, 3, 1, 0, -2, -4, -6, -7,
       -8, -9, -9, -9, -9, -8, -7, -6, -4, -2, 0, 1, 3, 4, 6, 7, 8, 9, 9, 9 >>

sinOffset(y) == SinTable[y + 1]

\* terrain[y][x] of a grid T
Cell(T, y, x) == T[y + 1][x + 1]

\* whether terrain[y][x] is an index inside T
InGrid(T, y, x) == (y + 1) \in DOMAIN T /\ (x + 1) \in DOMAIN T[y + 1]

\* the columns of row y of T that are River
riverCols(T, y) == {x \in 0..(Len(T[y + 1]) - 1) : Cell(T, y, x) = River}

---------------------------------------------------------------------------
(* initialModel *)

initialModel ==
    [ state  |-> TitleScreen,
      world  |-> [ Player       |-> [X |-> 10, Y |-> 5],
                   Width        |-> 0,
                   Height       |-> 0,
                   Terrain      |-> << >>,
                   GameOver     |-> FALSE,
                   Score        |-> 0,
                   ScrollTicker |-> 0 ],
      width  |-> 0,
      height |-> 0 ]

---------------------------------------------------------------------------
(* placePlayerInRiver *)

\* len(m.world.Terrain[0]) is evaluated before the emptiness test
placePlayerInRiverPanics(mm) == Len(mm.world.Terrain) = 0

placePlayerInRiver(mm) ==
    LET T      == mm.world.Terrain
        height == Len(T)
        width  == Len(T[1])
    IN  IF height = 0 \/ width = 0 THEN mm
        ELSE
        LET playerY == IF height - 5 < 0 THEN 0 ELSE height - 5
            cols    == riverCols(T, playerY)
        IN  IF cols # {}
            THEN LET leftmost  == Min(cols)
                     rightmost == Max(cols)
                 IN  [mm EXCEPT !.world.Player =
                         [X |-> leftmost + (rightmost - leftmost) \div 2,
                          Y |-> playerY]]
            ELSE \* fallback: the first River cell scanning rows bottom-up,
                 \* columns left to right
                 LET rows == {y \in 0..(height - 1) : riverCols(T, y) # {}}
                 IN  IF rows = {} THEN mm
                     ELSE LET y == Max(rows)
                          IN  [mm EXCEPT !.world.Player =
                                  [X |-> Min(riverCols(T, y)), Y |-> y]]

---------------------------------------------------------------------------
(* initializeTerrain *)

\* rand.Intn(10) + 5, the length of a side branch (of 5..14)
BranchLengthDraws == {5}

\* A side branch drawn for row y (rand.Intn(20) == 0): its length and its
\* direction (rand.Intn(2) == 0)
BranchDraws(y) ==
    { [y |-> y, len |-> l, dir |-> d] : l \in BranchLengthDraws, d \in {1, -1} }

\* The branches drawn while generating rows 0..rows-1: a set of branch
\* draws for distinct rows, at most k of them
RECURSIVE BranchPlans(_, _)
BranchPlans(rows, k) ==
    IF rows <= 0 \/ k = 0 THEN { {} }
    ELSE BranchPlans(rows - 1, k)
         \cup { P \cup {b} : P \in BranchPlans(rows - 1, k - 1),
                             b \in BranchDraws(rows - 1) }

\* The branch draws of one initializeTerrain call that are explored: no
\* branch, or a branch at one row
GridPlans(rows) == BranchPlans(rows, 1)

\* rand.Intn(11) + 10, the channel width of a grid (of 10..20)
RiverWidthDraws == {10, 20}

\* make([][]int, height) with a negative height; and the placement's read
\* of Terrain[0] when the grid has no rows
initializeTerrainPanics(mm) ==
    \/ mm.height - StatusLines < 0
    \/ mm.width < 0
    \/ mm.height - StatusLines = 0

\* The grid built by the two loops.  Cells are only ever set to River after
\* the Land fill, so a cell is River iff the main channel of its row or a
\* branch started at or above its row covers it.
makeTerrain(width, height, riverWidth, plan) ==
    LET centerX == width \div 2
        riverCenter(y) == centerX + sinOffset(y)
        inRiver(y, x) ==
            /\ x >= riverCenter(y) - riverWidth \div 2
            /\ x <= riverCenter(y) + riverWidth \div 2
        inBranch(y, x) ==
            \E b \in plan : \E i \in 0..(b.len - 1) :
                /\ y = b.y + i
                /\ x = riverCenter(b.y) + (i + 1) * b.dir
    IN  [ y \in 1..height |->
            [ x \in 1..width |->
                IF inRiver(y - 1, x - 1) \/ inBranch(y - 1, x - 1)
                THEN River ELSE Land ] ]

\* initializeTerrain that also starts the score again (a resize while
\* Playing would then lose the score)
initializeTerrainResetsScore(mm, riverWidth, plan) ==
    LET width   == mm.width
        height  == mm.height - StatusLines
        terrain == makeTerrain(width, height, riverWidth, plan)
    IN  placePlayerInRiver([mm EXCEPT !.world.Terrain = terrain,
                                      !.world.Score = 0])

\* initializeTerrain without the status area taken off the height
initializeTerrainFullHeight(mm, riverWidth, plan) ==
    LET width   == mm.width
        height  == mm.height
        terrain == makeTerrain(width, height, riverWidth, plan)
    IN  placePlayerInRiver([mm EXCEPT !.world.Terrain = terrain])

initializeTerrain(mm, riverWidth, plan) ==
    LET width   == mm.width
        height  == mm.height - StatusLines
        terrain == makeTerrain(width, height, riverWidth, plan)
    IN  placePlayerInRiver([mm EXCEPT !.world.Terrain = terrain])

---------------------------------------------------------------------------
(* generateNewRow *)

FallbackRiverWidth == 15
MinRiverWidth == 8

\* The draws of one generateNewRow call: rand.Intn(3) - 1 for the center,
\* rand.Intn(10) == 0 and rand.Intn(3) - 1 for the width, rand.Intn(20) == 0,
\* rand.Intn(2) == 0 and rand.Intn(5) + 2 for the branch.  A draw the code
\* does not make (the branch is not taken) is given one fixed value.
RowDraws ==
    { d \in [ shift  : {-1, 0, 1},
              adjust : BOOLEAN,
              delta  : {-1, 0, 1},
              branch : BOOLEAN,
              dir    : {1, -1},
              bw     : {2, 6} ] :
        /\ ~d.adjust => d.delta = 0
        /\ ~d.branch => (d.dir = 1 /\ d.bw = 2) }

\* m.world.Terrain[0][x] is read for every x < m.width
generateNewRowPanics(mm) ==
    /\ mm.width > 0
    /\ \/ Len(mm.world.Terrain) = 0
       \/ mm.width > Len(mm.world.Terrain[1])

\* generateNewRow whose fallback channel reaches riverWidth cells to each
\* side of the center (the division by 2 left out)
generateNewRowWideFallback(mm, d) ==
    LET width == mm.width
        cols  == {x \in 0..(width - 1) : Cell(mm.world.Terrain, 0, x) = River}
    IN  IF cols = {}
        THEN LET centerX == width \div 2
             IN  [ x \in 1..width |->
                     IF /\ x - 1 >= centerX - FallbackRiverWidth
                        /\ x - 1 <= centerX + FallbackRiverWidth
                     THEN River ELSE Land ]
        ELSE LET riverLeft   == Min(cols)
                 riverRight  == Max(cols)
                 riverCenter == riverLeft + (riverRight - riverLeft) \div 2 + d.shift
                 width0      == riverRight - riverLeft + 1
                 riverWidth  == IF d.adjust
                                THEN IF width0 + d.delta < MinRiverWidth
                                     THEN MinRiverWidth
                                     ELSE width0 + d.delta
                                ELSE width0
                 inRiver(x)  == /\ x >= riverCenter - riverWidth \div 2
                                /\ x <= riverCenter + riverWidth \div 2
                 inBranch(x) == /\ d.branch
                                /\ \E i \in 0..(d.bw - 1) : x = riverCenter + i * d.dir
             IN  [ x \in 1..width |->
                     IF inRiver(x - 1) \/ inBranch(x - 1) THEN River ELSE Land ]

generateNewRow(mm, d) ==
    LET width == mm.width
        cols  == {x \in 0..(width - 1) : Cell(mm.world.Terrain, 0, x) = River}
    IN  IF cols = {}
        THEN \* Fallback if no river found
             LET centerX == width \div 2
             IN  [ x \in 1..width |->
                     IF /\ x - 1 >= centerX - FallbackRiverWidth \div 2
                        /\ x - 1 <= centerX + FallbackRiverWidth \div 2
                     THEN River ELSE Land ]
        ELSE LET riverLeft   == Min(cols)
                 riverRight  == Max(cols)
                 riverCenter == riverLeft + (riverRight - riverLeft) \div 2 + d.shift
                 width0      == riverRight - riverLeft + 1
                 riverWidth  == IF d.adjust
                                THEN IF width0 + d.delta < MinRiverWidth
                                     THEN MinRiverWidth
                                     ELSE width0 + d.delta
                                ELSE width0
                 inRiver(x)  == /\ x >= riverCenter - riverWidth \div 2
                                /\ x <= riverCenter + riverWidth \div 2
                 inBranch(x) == /\ d.branch
                                /\ \E i \in 0..(d.bw - 1) : x = riverCenter + i * d.dir
             IN  [ x \in 1..width |->
                     IF inRiver(x - 1) \/ inBranch(x - 1) THEN River ELSE Land ]

---------------------------------------------------------------------------
(* scrollTerrain *)

\* shiftRows with the copy running the wrong way (Terrain[y] = Terrain[y-1]
\* for y = 1..height-1): every row becomes the old top row
shiftRowsDown(T) ==
    [ y \in 1..Len(T) |-> T[1] ]

\* "Move all rows up": Terrain[y] = Terrain[y+1] for y = 0..height-2
shiftRows(T) ==
    [ y \in 1..Len(T) |-> IF y < Len(T) THEN T[y + 1] ELSE T[y] ]

scrollTerrainPanics(mm) ==
    /\ Len(mm.world.Terrain) > 1
    /\ generateNewRowPanics([mm EXCEPT !.world.Terrain = shiftRows(@)])

\* scrollTerrain with the guard off by one (height < 1): a one-row grid is
\* scrolled too
scrollTerrainEmptyOnly(mm, d) ==
    LET height == Len(mm.world.Terrain)
    IN  IF height < 1 THEN mm
        ELSE LET m1     == [mm EXCEPT !.world.Terrain = shiftRows(@)]
                 newRow == generateNewRow(m1, d)
             IN  [m1 EXCEPT !.world.Terrain[height] = newRow,
                            !.world.Score = @ + 1]

scrollTerrain(mm, d) ==
    LET height == Len(mm.world.Terrain)
    IN  IF height <= 1 THEN mm
        ELSE LET m1     == [mm EXCEPT !.world.Terrain = shiftRows(@)]
                 newRow == generateNewRow(m1, d)
             IN  [m1 EXCEPT !.world.Terrain[height] = newRow,
                            !.world.Score = @ + 1]

---------------------------------------------------------------------------
(* checkCollision *)

\* The index expressions of checkCollision that are out of range:
\* len(m.world.Terrain[0]) is evaluated only when the three tests before it
\* are false; Terrain[playerY][playerX] only when the boundary test is false.
checkCollisionPanics(mm) ==
    LET playerX == mm.world.Player.X
        playerY == mm.world.Player.Y
        T       == mm.world.Terrain
        readsRow0 == ~(playerY < 0) /\ ~(playerY >= Len(T)) /\ ~(playerX < 0)
    IN  \/ readsRow0 /\ Len(T) = 0
        \/ /\ readsRow0 /\ Len(T) > 0
           /\ ~(playerX >= Len(T[1]))
           /\ ~InGrid(T, playerY, playerX)

\* checkCollision without the "player is on land" test
checkCollisionSkipsLand(mm) ==
    LET playerX == mm.world.Player.X
        playerY == mm.world.Player.Y
        T       == mm.world.Terrain
    IN  IF \/ playerY < 0 \/ playerY >= Len(T)
           \/ playerX < 0 \/ playerX >= Len(T[1])
        THEN [mm EXCEPT !.state = GameOver]
        ELSE mm

\* checkCollision with the win test of the reach-the-top variant left in
checkCollisionWins(mm) ==
    LET playerX == mm.world.Player.X
        playerY == mm.world.Player.Y
        T       == mm.world.Terrain
    IN  IF \/ playerY < 0 \/ playerY >= Len(T)
           \/ playerX < 0 \/ playerX >= Len(T[1])
        THEN [mm EXCEPT !.state = GameOver]
        ELSE IF Cell(T, playerY, playerX) = Land
             THEN [mm EXCEPT !.state = GameOver]
             ELSE IF playerY = 0
                  THEN [mm EXCEPT !.state = Win]
                  ELSE mm

checkCollision(mm) ==
    LET playerX == mm.world.Player.X
        playerY == mm.world.Player.Y
        T       == mm.world.Terrain
    IN  IF \/ playerY < 0 \/ playerY >= Len(T)
           \/ playerX < 0 \/ playerX >= Len(T[1])
        THEN [mm EXCEPT !.state = GameOver]
        ELSE IF Cell(T, playerY, playerX) = Land
             THEN [mm EXCEPT !.state = GameOver]
             ELSE mm

---------------------------------------------------------------------------
(* Init, Update of the endless variant *)

\* A panic inside Update: the program ends, the stored model is the one
\* Update was called with
Panic(type) ==
    /\ fault' = TRUE
    /\ ev' = type
    /\ UNCHANGED <<m, pendingTicks>>

\* Update ran to its end and returned the model mm
Return(mm, type) ==
    /\ m' = mm
    /\ ev' = type
    /\ fault' = fault

\* Window sizes the terminal reports
Sizes == { <<0, 5>>, <<6, 2>>, <<6, 3>>, <<6, 5>> }

Keys == {"up", "down", "left", "right"}

Init ==
    /\ m = initialModel
    /\ pendingTicks = 1           \* Init returns tick()
    /\ fault = FALSE
    /\ ev = "init"

\* scrollDue with > for >=: the scroll comes one tick late
scrollDueLate(mm) == mm.world.ScrollTicker > ScrollInterval

\* "Scroll every few ticks": the test made after the increment
scrollDue(mm) == mm.world.ScrollTicker >= ScrollInterval

\* case TickMsg
Tick ==
    /\ ~fault
    /\ pendingTicks > 0
    /\ IF m.state # Playing
       THEN /\ Return(m, "tick")
            /\ pendingTicks' = pendingTicks - 1
       ELSE LET m1 == [m EXCEPT !.world.ScrollTicker = @ + 1]
            IN  IF ~scrollDue(m1)
                THEN /\ Return(m1, "tick")
                     /\ pendingTicks' = pendingTicks
                ELSE IF scrollTerrainPanics(m1)
                THEN Panic("tick")
                ELSE \E d \in RowDraws :
                       LET m2 == scrollTerrain(m1, d)
                       IN  /\ m2.world.Score <= MaxScore
                           /\ IF checkCollisionPanics(m2)
                              THEN Panic("tick")
                              ELSE /\ Return([checkCollision(m2) EXCEPT
                                                !.world.ScrollTicker = 0],
                                             "tick")
                                   /\ pendingTicks' = pendingTicks

\* case "s", "r"
Start ==
    /\ ~fault
    /\ IF m.state \in {TitleScreen, GameOver, Win}
       THEN LET m1 == [m EXCEPT !.state = Playing,
                                !.world.Score = 0,
                                !.world.ScrollTicker = 0]
            IN  /\ pendingTicks < MaxPending
                /\ IF initializeTerrainPanics(m1)
                   THEN Panic("start")
                   ELSE \E rw \in RiverWidthDraws :
                        \E plan \in GridPlans(m1.height - StatusLines) :
                          /\ Return(initializeTerrain(m1, rw, plan), "start")
                          /\ pendingTicks' = pendingTicks + 1
       ELSE /\ Return(m, "start")
            /\ pendingTicks' = pendingTicks

\* the player after the movement key, when the key's guard lets it move
moved(mm, key) ==
    CASE key = "up" ->
           IF mm.world.Player.Y > 0
           THEN [mm EXCEPT !.world.Player.Y = @ - 1] ELSE mm
      [] key = "down" ->
           IF mm.world.Player.Y < mm.height - 3
           THEN [mm EXCEPT !.world.Player.Y = @ + 1] ELSE mm
      [] key = "left" ->
           IF mm.world.Player.X > 0
           THEN [mm EXCEPT !.world.Player.X = @ - 1] ELSE mm
      [] key = "right" ->
           IF mm.world.Player.X < mm.width - 1
           THEN [mm EXCEPT !.world.Player.X = @ + 1] ELSE mm

\* Move without the m.state == Playing test of the four cases
MoveAnyState(key) ==
    /\ ~fault
    /\ pendingTicks' = pendingTicks
    /\ IF moved(m, key) # m
       THEN IF checkCollisionPanics(moved(m, key))
            THEN Panic("move")
            ELSE Return(checkCollision(moved(m, key)), "move")
       ELSE Return(m, "move")

\* case "up", "k" / "down", "j" / "left", "h" / "right", "l"
Move(key) ==
    /\ ~fault
    /\ pendingTicks' = pendingTicks
    /\ IF m.state = Playing /\ moved(m, key) # m
       THEN IF checkCollisionPanics(moved(m, key))
            THEN Panic("move")
            ELSE Return(checkCollision(moved(m, key)), "move")
       ELSE Return(m, "move")

\* case tea.WindowSizeMsg
Resize(w, h) ==
    /\ ~fault
    /\ LET m1 == [m EXCEPT !.width = w, !.height = h,
                           !.world.Width = w, !.world.Height = h]
       IN  IF m1.state = Playing
           THEN IF initializeTerrainPanics(m1)
                THEN Panic("resize")
                ELSE \E rw \in RiverWidthDraws :
                     \E plan \in GridPlans(m1.height - StatusLines) :
                        Return(initializeTerrain(m1, rw, plan), "resize")
           ELSE Return(m1, "resize")
    /\ pendingTicks' = pendingTicks

Next ==
    \/ Tick
    \/ Start
    \/ \E key \in Keys : Move(key)
    \/ \E sz \in Sizes : Resize(sz[1], sz[2])

Spec == Init /\ [][Next]_vars

---------------------------------------------------------------------------
(* Properties of the endless variant.  Every handler records its message
   kind in ev, so ev' = "tick" holds of exactly the steps Tick takes. *)

\* the player of mm stands on a cell of the grid of mm
PlayerInGrid(mm) ==
    InGrid(mm.world.Terrain, mm.world.Player.Y, mm.world.Player.X)

\* the player of mm stands on a Channel (River) cell of the grid
PlayerOnChannel(mm) ==
    /\ PlayerInGrid(mm)
    /\ Cell(mm.world.Terrain, mm.world.Player.Y, mm.world.Player.X) = River

\* the cell one step from p in the direction of the key
destination(p, key) ==
    CASE key = "up"    -> [X |-> p.X, Y |-> p.Y - 1]
      [] key = "down"  -> [X |-> p.X, Y |-> p.Y + 1]
      [] key = "left"  -> [X |-> p.X - 1, Y |-> p.Y]
      [] key = "right" -> [X |-> p.X + 1, Y |-> p.Y]

\* C1: in every reachable state with GameState = Playing the player satisfies
\* 0 <= x < grid width and 0 <= y < grid height of the current terrain grid.
C1_PlayerInBounds ==
    m.state = Playing => PlayerInGrid(m)

\* C3: no event causes a runtime fault, whatever the playfield size.
C3_NoRuntimeFault ==
    fault = FALSE

\* C4: while Playing a Tick scrolls iff it brings ScrollTicker to the
\* threshold, and then resets the ticker to 0: the ticker is within
\* 0..ScrollInterval-1 before the Tick; a Tick from ScrollInterval-1 shifts the
\* grid by exactly one row, raises Score by exactly 1 (grid of more than one
\* row) and leaves the ticker 0; any other Tick changes only ScrollTicker, by
\* +1.  So five consecutive Ticks from 0 scroll exactly once.
C4_TickCadence ==
    [][ (ev' = "tick" /\ m.state = Playing) =>
          LET T    == m.world.Terrain
              T2   == m'.world.Terrain
              rows == Len(T)
          IN  /\ m.world.ScrollTicker \in 0..(ScrollInterval - 1)
              /\ IF m.world.ScrollTicker + 1 = ScrollInterval
                 THEN /\ m'.world.ScrollTicker = 0
                      /\ rows > 1 =>
                           /\ m'.world.Score = m.world.Score + 1
                           /\ Len(T2) = rows
                           /\ \A i \in 1..(rows - 1) : T2[i] = T[i + 1]
                      /\ rows <= 1 =>
                           /\ m'.world.Score = m.world.Score
                           /\ T2 = T
                 ELSE m' = [m EXCEPT !.world.ScrollTicker = @ + 1]
      ]_vars

\* C4 witness: a Tick has just scrolled a grid of several rows: Score was
\* raised to 1, the ticker is back at 0 and the game goes on.
C4_Witness ==
    /\ ev = "tick" /\ m.state = Playing
    /\ m.world.ScrollTicker = 0 /\ m.world.Score = 1
    /\ Len(m.world.Terrain) > 1

\* C5: a scroll of a grid of N > 1 rows yields N rows of the same width, new
\* row i is old row i+1 for every i in 0..N-2, the last row is a row
\* generateNewRow makes from the top row after the shift (old row 1), and
\* Score is raised by exactly 1.
C5_ScrollShifts ==
    [][ ( /\ ev' = "tick" /\ m.state = Playing
          /\ m.world.ScrollTicker + 1 >= ScrollInterval
          /\ Len(m.world.Terrain) > 1 ) =>
          LET T  == m.world.Terrain
              T2 == m'.world.Terrain
              N  == Len(T)
          IN  /\ Len(T2) = N
              /\ \A i \in 1..N : Len(T2[i]) = Len(T[1])
              /\ \A i \in 1..(N - 1) : T2[i] = T[i + 1]
              /\ \E d \in RowDraws :
                    T2[N] = generateNewRow([m EXCEPT !.world.Terrain = <<T[2]>>], d)
              /\ m'.world.Score = m.world.Score + 1
      ]_vars

\* C5 witness: a scroll has replaced the bottom row of a 3-row grid by a row
\* that differs from the row above it (the row it overwrote).
C5_Witness ==
    /\ ev = "tick" /\ m.world.Score = 1 /\ m.world.ScrollTicker = 0
    /\ Len(m.world.Terrain) = 3
    /\ m.world.Terrain[3] # m.world.Terrain[2]
    /\ m.world.Terrain[2] # m.world.Terrain[1]

\* C7: while Playing a movement key moves the player one cell when the
\* destination is inside the grid, whatever the terrain there, and then the
\* collision check runs; when the destination is outside the grid nothing
\* changes; terrain and ScrollTicker never change.
C7_Movement ==
    [][ \A key \in Keys :
          (ev' = "move" /\ m.state = Playing /\ Move(key)) =>
            LET T == m.world.Terrain
                d == destination(m.world.Player, key)
            IN  /\ m'.world.Terrain = T
                /\ m'.world.ScrollTicker = m.world.ScrollTicker
                /\ IF InGrid(T, d.Y, d.X)
                   THEN /\ m'.world.Player = d
                        /\ m'.world.Score = m.world.Score
                        /\ m'.state = IF Cell(T, d.Y, d.X) = Land
                                      THEN GameOver ELSE Playing
                   ELSE m' = m
      ]_vars

\* C8: a start/restart key in Title, GameOver or Win gives Playing with
\* Score 0, ScrollTicker 0 and a fresh grid of (height - 2) rows of width
\* cells; the result is one that the same key gives from Title at the same
\* playfield size: nothing of the previous game is carried over.
C8_StartFresh ==
    [][ (ev' = "start" /\ m.state \in {TitleScreen, GameOver, Win}) =>
          LET title == [initialModel EXCEPT !.width = m.width, !.height = m.height,
                                            !.world.Width = m.world.Width,
                                            !.world.Height = m.world.Height,
                                            !.state = Playing]
          IN  /\ m'.state = Playing
              /\ m'.world.Score = 0
              /\ m'.world.ScrollTicker = 0
              /\ Len(m'.world.Terrain) = m.height - StatusLines
              /\ \A y \in 1..Len(m'.world.Terrain) :
                    Len(m'.world.Terrain[y]) = m.width
              /\ \E rw \in RiverWidthDraws :
                 \E plan \in GridPlans(m.height - StatusLines) :
                    m' = initializeTerrain(title, rw, plan)
      ]_vars

\* C10: the endless variant never reaches Win; Playing is left only to
\* GameOver, and only with the player off the grid or on Land, so a player on
\* a Channel cell (of row 0 or any row) stays in Playing.
C10_NeverWin ==
    [][ /\ m'.state # Win
        /\ (m.state = Playing /\ m'.state # Playing) =>
              (m'.state = GameOver /\ ~PlayerOnChannel(m'))
      ]_vars

\* C10 witness: a move has left the player on a Channel cell of row 0 and
\* the state is still Playing.
C10_Witness ==
    /\ ev = "move" /\ m.state = Playing
    /\ m.world.Player.Y = 0 /\ PlayerOnChannel(m)

\* C11: a Tick never changes the player's coordinates, and after a Tick
\* that reaches the scroll threshold the collision check has been made
\* against the unchanged position and the grid left by the scroll: the state
\* is GameOver if the player's cell in the new grid is Land or the position
\* is outside the grid, and Playing otherwise.
C11_CollisionAfterScroll ==
    [][ (ev' = "tick" /\ m.state = Playing) =>
          /\ m'.world.Player = m.world.Player
          /\ m.world.ScrollTicker + 1 >= ScrollInterval =>
               /\ fault' = FALSE
               /\ m'.state = IF PlayerOnChannel(m') THEN Playing ELSE GameOver
      ]_vars

\* C11 witness: a scroll has moved a Land cell under the player, who stood
\* on a grid cell, and the Tick has ended the game.
C11_Witness ==
    /\ ev = "tick" /\ m.state = GameOver
    /\ m.world.Score = 1 /\ m.world.ScrollTicker = 0
    /\ PlayerInGrid(m)
    /\ Cell(m.world.Terrain, m.world.Player.Y, m.world.Player.X) = Land

\* C14: Score never goes down between two starts: a Tick, a movement key, a
\* resize and a start key pressed while Playing leave Score as it is, except
\* that a Tick that scrolls a grid of more than one row raises it by exactly 1.
C14_ScoreMonotone ==
    [][ (ev' \in {"tick", "move", "resize"} \/ (ev' = "start" /\ m.state = Playing)) =>
          /\ m'.world.Score >= m.world.Score
          /\ m'.world.Score # m.world.Score =>
                /\ ev' = "tick" /\ m.state = Playing
                /\ m.world.ScrollTicker + 1 >= ScrollInterval
                /\ Len(m.world.Terrain) > 1
                /\ m'.world.Score = m.world.Score + 1
      ]_vars

\* C14 witness: a resize has been handled while Playing with a Score of 1,
\* and the Score is still 1.
C14_Witness ==
    /\ ev = "resize" /\ m.state = Playing
    /\ m.world.Score = 1

\* C15: ScrollTicker is within 0..ScrollInterval-1 in every state reached
\* after an event has been handled.
C15_TickerBounded ==
    m.world.ScrollTicker \in 0..(ScrollInterval - 1)

\* C15 witness: Ticks have brought the ticker to ScrollInterval-1 while
\* Playing.
C15_Witness ==
    /\ ev = "tick" /\ m.state = Playing
    /\ m.world.ScrollTicker = ScrollInterval - 1

\* C16: a resize while Playing keeps the state Playing and replaces the
\* terrain by a freshly generated grid of the new dimensions, with Score and
\* ScrollTicker unchanged; a resize in Title, GameOver or Win changes the
\* recorded dimensions and nothing else.
C16_Resize ==
    [][ \A sz \in Sizes :
          (ev' = "resize" /\ Resize(sz[1], sz[2])) =>
            IF m.state = Playing
            THEN /\ fault' = FALSE
                 /\ m'.state = Playing
                 /\ m'.width = sz[1] /\ m'.height = sz[2]
                 /\ \E rw \in RiverWidthDraws :
                    \E plan \in GridPlans(sz[2] - StatusLines) :
                       m'.world.Terrain =
                          makeTerrain(sz[1], sz[2] - StatusLines, rw, plan)
                 /\ m'.world.Score = m.world.Score
                 /\ m'.world.ScrollTicker = m.world.ScrollTicker
            ELSE m' = [m EXCEPT !.width = sz[1], !.height = sz[2],
                                !.world.Width = sz[1], !.world.Height = sz[2]]
      ]_vars

\* C18: while Playing the grid has exactly (playfield height - 2) rows and
\* every row has exactly playfield-width cells, each Land or Channel, after
\* any number of scrolls and resizes.
C18_GridMatchesPlayfield ==
    m.state = Playing =>
        /\ Len(m.world.Terrain) = m.height - StatusLines
        /\ \A y \in 1..Len(m.world.Terrain) :
              /\ Len(m.world.Terrain[y]) = m.width
              /\ \A x \in 1..m.width : m.world.Terrain[y][x] \in {Land, River}

\* C18 witness: a scroll has replaced the bottom row of a grid of three rows
\* of six cells by a row that has both Land and Channel cells.
C18_Witness ==
    /\ ev = "tick" /\ m.state = Playing /\ m.world.Score = 1
    /\ Len(m.world.Terrain) = 3 /\ m.width = 6
    /\ riverCols(m.world.Terrain, 2) \notin {{}, 0..5}

\* C21: at most one timer tick is scheduled and not yet delivered, in every
\* state, whatever the order of ticks, start/restart keys, movement keys and
\* resizes.
C21_OneTickPending ==
    pendingTicks <= 1

\* C24: GameOver and Win are frozen: a Tick or a movement key handled in
\* GameOver or Win leaves state, player, terrain, Score and ScrollTicker (the
\* whole model) unchanged, and so does a start/restart key handled while
\* Playing; none of them faults.
C24_Frozen ==
    [][ ( \/ (ev' \in {"tick", "move"} /\ m.state \in {GameOver, Win})
          \/ (ev' = "start" /\ m.state = Playing) ) =>
          (m' = m /\ fault' = FALSE)
      ]_vars

\* C24 witness: the game is over and the last timer tick in flight has been
\* delivered in GameOver (a Tick while Playing schedules the next one).
C24_Witness ==
    /\ ev = "tick" /\ m.state = GameOver
    /\ pendingTicks = 0
    /\ m.world.Score = 1

---------------------------------------------------------------------------
(* The reach-the-top variant (src/unnamed/part_001).  Its World has no
   ScrollTicker and its program schedules no tick: the ScrollTicker field of
   m stays 0 and pendingTicks stays 0. *)

MaxScoreTop == 3   \* Score of the reach-the-top variant is not driven beyond this

\* make([][]int, height) with a negative height; terrain[lastRow][x] with
\* lastRow = -1 when the grid has no rows and width > 0
initializeTerrainTopPanics(mm) ==
    \/ mm.height - StatusLines < 0
    \/ mm.width < 0
    \/ (mm.height - StatusLines = 0 /\ mm.width > 0)

\* the same grid as in the endless variant; the player is put in the middle
\* of the channel of the last row, and stays where it was if that row has none
initializeTerrainTop(mm, riverWidth, plan) ==
    LET width   == mm.width
        height  == mm.height - StatusLines
        terrain == makeTerrain(width, height, riverWidth, plan)
        lastRow == height - 1
        cols    == IF width = 0 THEN {} ELSE riverCols(terrain, lastRow)
        m1      == [mm EXCEPT !.world.Terrain = terrain]
    IN  IF cols # {}
        THEN LET leftmost  == Min(cols)
                 rightmost == Max(cols)
             IN  [m1 EXCEPT !.world.Player =
                     [X |-> leftmost + (rightmost - leftmost) \div 2,
                      Y |-> lastRow]]
        ELSE m1

\* the boundary test is the one of the endless variant
checkCollisionTopPanics(mm) == checkCollisionPanics(mm)

\* checkCollisionTop with the win test made before the land test
checkCollisionTopWinFirst(mm) ==
    LET playerX == mm.world.Player.X
        playerY == mm.world.Player.Y
        T       == mm.world.Terrain
    IN  IF \/ playerY < 0 \/ playerY >= Len(T)
           \/ playerX < 0 \/ playerX >= Len(T[1])
        THEN [mm EXCEPT !.state = GameOver]
        ELSE IF playerY = 0
             THEN [mm EXCEPT !.state = Win]
             ELSE IF Cell(T, playerY, playerX) = Land
                  THEN [mm EXCEPT !.state = GameOver]
                  ELSE IF mm.world.Player.Y < Len(T) - 1
                       THEN [mm EXCEPT !.world.Score = @ + 1]
                       ELSE mm

checkCollisionTop(mm) ==
    LET playerX == mm.world.Player.X
        playerY == mm.world.Player.Y
        T       == mm.world.Terrain
    IN  IF \/ playerY < 0 \/ playerY >= Len(T)
           \/ playerX < 0 \/ playerX >= Len(T[1])
        THEN [mm EXCEPT !.state = GameOver]
        ELSE IF Cell(T, playerY, playerX) = Land
             THEN [mm EXCEPT !.state = GameOver]
             ELSE IF playerY = 0
                  THEN [mm EXCEPT !.state = Win]
                  ELSE IF mm.world.Player.Y < Len(T) - 1
                       THEN [mm EXCEPT !.world.Score = @ + 1]
                       ELSE mm

\* the four movement cases have the guards of the endless variant
movedTop(mm, key) == moved(mm, key)

TopSizes == { <<0, 2>>, <<14, 2>>, <<14, 3>>, <<14, 5>>, <<4, 7>> }

InitTop ==
    /\ m = initialModel
    /\ pendingTicks = 0           \* Init returns nil
    /\ fault = FALSE
    /\ ev = "init"

\* case "s", "r"
StartTop ==
    /\ ~fault
    /\ pendingTicks' = pendingTicks
    /\ IF m.state \in {TitleScreen, GameOver, Win}
       THEN LET m1 == [m EXCEPT !.state = Playing, !.world.Score = 0]
            IN  IF initializeTerrainTopPanics(m1)
                THEN Panic("start")
                ELSE \E rw \in RiverWidthDraws :
                     \E plan \in GridPlans(m1.height - StatusLines) :
                        Return(initializeTerrainTop(m1, rw, plan), "start")
       ELSE Return(m, "start")

\* case "up", "k" / "down", "j" / "left", "h" / "right", "l"
MoveTop(key) ==
    /\ ~fault
    /\ pendingTicks' = pendingTicks
    /\ IF m.state = Playing /\ movedTop(m, key) # m
       THEN IF checkCollisionTopPanics(movedTop(m, key))
            THEN Panic("move")
            ELSE /\ checkCollisionTop(movedTop(m, key)).world.Score <= MaxScoreTop
                 /\ Return(checkCollisionTop(movedTop(m, key)), "move")
       ELSE Return(m, "move")

\* case tea.WindowSizeMsg
ResizeTop(w, h) ==
    /\ ~fault
    /\ pendingTicks' = pendingTicks
    /\ LET m1 == [m EXCEPT !.width = w, !.height = h,
                           !.world.Width = w, !.world.Height = h]
       IN  IF m1.state = Playing
           THEN IF initializeTerrainTopPanics(m1)
                THEN Panic("resize")
                ELSE \E rw \in RiverWidthDraws :
                     \E plan \in GridPlans(m1.height - StatusLines) :
                        Return(initializeTerrainTop(m1, rw, plan), "resize")
           ELSE Return(m1, "resize")

NextTop ==
    \/ StartTop
    \/ \E key \in Keys : MoveTop(key)
    \/ \E sz \in TopSizes : ResizeTop(sz[1], sz[2])

SpecTop == InitTop /\ [][NextTop]_vars

---------------------------------------------------------------------------
(* checkCollision and scrollTerrain on their own: the functions of the
   endless variant applied to every small grid and player position *)

\* every rectangular grid of at most 2 rows and 2 columns
UnitGrids ==
    UNION { [1..h -> [1..w -> {Land, River}]] : h \in 0..2, w \in 0..2 }

UnitCoords == -1..2

InitUnit ==
    /\ \E T \in UnitGrids : \E x \in UnitCoords : \E y \in UnitCoords :
       \E w \in 0..2 :
          /\ Len(T) > 0 => w = Len(T[1])
          /\ m = [initialModel EXCEPT
                    !.state = Playing,
                    !.width = w, !.height = Len(T) + StatusLines,
                    !.world.Width = w, !.world.Height = Len(T) + StatusLines,
                    !.world.Terrain = T,
                    !.world.Player = [X |-> x, Y |-> y]]
    /\ pendingTicks = 0
    /\ fault = FALSE
    /\ ev = "init"

UnitCheckCollision ==
    /\ ~fault
    /\ pendingTicks' = pendingTicks
    /\ IF checkCollisionPanics(m)
       THEN Panic("checkCollision")
       ELSE Return(checkCollision(m), "checkCollision")

UnitScrollTerrain ==
    /\ ~fault
    /\ pendingTicks' = pendingTicks
    /\ m.world.Score < MaxScore
    /\ IF scrollTerrainPanics(m)
       THEN Panic("scrollTerrain")
       ELSE \E d \in RowDraws : Return(scrollTerrain(m, d), "scrollTerrain")

NextUnit ==
    \/ UnitCheckCollision
    \/ UnitScrollTerrain

SpecUnit == InitUnit /\ [][NextUnit]_vars

---------------------------------------------------------------------------
(* Properties of the reach-the-top variant *)

\* C9: in the reach-the-top variant a movement that puts the player on a grid
\* cell of row 0 gives Win if the cell is Channel and GameOver if it is Land;
\* and the state is Win only with the player at y = 0 on a Channel cell.
C9_WinAtTop ==
    [][ /\ ( /\ ev' = "move" /\ m.state = Playing
             /\ m'.world.Player # m.world.Player
             /\ PlayerInGrid(m') /\ m'.world.Player.Y = 0 ) =>
               m'.state = IF PlayerOnChannel(m') THEN Win ELSE GameOver
        /\ m'.state = Win =>
               (m'.world.Player.Y = 0 /\ PlayerOnChannel(m'))
      ]_vars

\* C9 witness: a move has brought the player to a Channel cell of row 0 of a
\* grid of several rows, and the state is Win.
C9_Witness ==
    /\ ev = "move" /\ m.state = Win
    /\ Len(m.world.Terrain) > 1
    /\ m.world.Player.Y = 0 /\ PlayerOnChannel(m)

\* C23: in the reach-the-top variant only a move up scores: a movement that
\* leaves the game in Playing raises Score by 1 when it decreases y and
\* leaves Score unchanged when it goes left, right or down.
C23_ScoreOnlyUp ==
    [][ ( /\ ev' = "move" /\ m.state = Playing /\ m'.state = Playing
          /\ m'.world.Player # m.world.Player ) =>
          m'.world.Score = IF m'.world.Player.Y < m.world.Player.Y
                           THEN m.world.Score + 1
                           ELSE m.world.Score
      ]_vars

---------------------------------------------------------------------------
(* Properties of checkCollision and scrollTerrain on their own *)

\* C2: for every grid and player position checkCollision ends the game iff
\* the position is outside the grid or is a Land cell of it; it makes no
\* out-of-range index; on a Channel cell of the grid it changes nothing.
C2_CollisionVerdict ==
    [][ (ev' = "checkCollision" /\ m.state = Playing) =>
          /\ fault' = FALSE
          /\ m'.state = GameOver <=>
               ( \/ ~PlayerInGrid(m)
                 \/ Cell(m.world.Terrain, m.world.Player.Y, m.world.Player.X) = Land )
          /\ PlayerOnChannel(m) => m' = m
          /\ m' = [m EXCEPT !.state = m'.state]
      ]_vars

\* C2 witness: checkCollision has been applied with the player on a Land
\* cell of the grid, and the state is GameOver.
C2_Witness ==
    /\ ev = "checkCollision" /\ m.state = GameOver
    /\ PlayerInGrid(m)
    /\ Cell(m.world.Terrain, m.world.Player.Y, m.world.Player.X) = Land

\* C6: scrollTerrain on a grid of 0 rows or 1 row returns the model
\* unchanged: same grid, same Score.
C6_ScrollSmallGrid ==
    [][ (ev' = "scrollTerrain" /\ Len(m.world.Terrain) <= 1) =>
          (m' = m /\ fault' = FALSE)
      ]_vars

\* C6 witness: scrollTerrain has been applied to a grid of one row of two
\* cells, one of them Channel.
C6_Witness ==
    /\ ev = "scrollTerrain"
    /\ Len(m.world.Terrain) = 1
    /\ Len(m.world.Terrain[1]) = 2
    /\ riverCols(m.world.Terrain, 0) # {}
    /\ m.world.Score = 0

---------------------------------------------------------------------------
(* initializeTerrain and the first scrollTerrain on playfields of full
   width: the functions of the endless variant applied to a model that has
   received its window size, with every channel width the code draws *)

\* playfield sizes (width, height) of the WindowSizeMsg received before
GenSizes == { <<20, 12>>, <<40, 20>>, <<40, 25>> }

\* rand.Intn(11) + 10: every value
GenRiverWidthDraws == 10..20

InitGen ==
    /\ \E sz \in GenSizes :
          m = [initialModel EXCEPT !.width = sz[1], !.height = sz[2],
                                   !.world.Width = sz[1], !.world.Height = sz[2]]
    /\ pendingTicks = 0
    /\ fault = FALSE
    /\ ev = "init"

\* the start key's assignments and its call of initializeTerrain
GenInitializeTerrain ==
    /\ ev = "init"
    /\ pendingTicks' = pendingTicks
    /\ LET m1 == [m EXCEPT !.state = Playing,
                           !.world.Score = 0,
                           !.world.ScrollTicker = 0]
       IN  IF initializeTerrainPanics(m1)
           THEN Panic("initializeTerrain")
           ELSE \E rw \in GenRiverWidthDraws :
                \E plan \in GridPlans(m1.height - StatusLines) :
                   Return(initializeTerrain(m1, rw, plan), "initializeTerrain")

\* the first scroll of the grid initializeTerrain has made
GenScrollTerrain ==
    /\ ev = "initializeTerrain" /\ ~fault
    /\ pendingTicks' = pendingTicks
    /\ IF scrollTerrainPanics(m)
       THEN Panic("scrollTerrain")
       ELSE \E d \in RowDraws : Return(scrollTerrain(m, d), "scrollTerrain")

NextGen ==
    \/ GenInitializeTerrain
    \/ GenScrollTerrain

SpecGen == InitGen /\ [][NextGen]_vars

---------------------------------------------------------------------------
(* Properties of the generated grids *)

\* row has n or more consecutive Channel cells
hasRun(row, n) ==
    \E a \in 1..(Len(row) - n + 1) : \A i \in a..(a + n - 1) : row[i] = River

\* the center of the channel of row y of T, as the code computes it from the
\* leftmost and rightmost Channel cell
channelCenter(T, y) ==
    Min(riverCols(T, y)) + (Max(riverCols(T, y)) - Min(riverCols(T, y))) \div 2

\* C12: every row of an initial grid generated for a playfield of width >= 20
\* and height >= 10 has a run of at least MinRiverWidth (8) consecutive
\* Channel cells, for every channel width and every branch.
C12_RowsHaveWideChannel ==
    (ev = "initializeTerrain" /\ ~fault /\ m.width >= 20 /\ m.height >= 10) =>
        \A y \in 1..Len(m.world.Terrain) :
            hasRun(m.world.Terrain[y], MinRiverWidth)

\* C13: in an initial grid generated for width 40 and height 20, row 0 has
\* between 10 and 20 Channel cells and the center of its channel is within 10
\* of width / 2, for every random choice.
C13_RowZeroChannel ==
    (ev = "initializeTerrain" /\ ~fault /\ m.width = 40 /\ m.height = 20) =>
        /\ Cardinality(riverCols(m.world.Terrain, 0)) \in 10..20
        /\ channelCenter(m.world.Terrain, 0) - m.width \div 2 \in -10..10

\* C19: on a playfield at least 40 wide every two vertically adjacent rows
\* of the grid share a column that is Channel in both, in the initial grid
\* and after a scroll; so the row a scroll generates shares a Channel column
\* with the row directly above it.
C19_ChannelContinuous ==
    (ev \in {"initializeTerrain", "scrollTerrain"} /\ ~fault /\ m.width >= 40) =>
        \A y \in 1..(Len(m.world.Terrain) - 1) :
            riverCols(m.world.Terrain, y - 1) \cap riverCols(m.world.Terrain, y) # {}

---------------------------------------------------------------------------
(* generateNewRow on its own: scrollTerrain applied once to a grid of two
   equal rows, so that the new row is generated from the given reference
   row (the top row after the shift) and is left as the second row *)

\* the widths of the reference rows
RowWidths == {0, 6, 16, 20}

\* the reference rows of width w: no Channel cell; or leftmost Channel cell
\* l and rightmost r, with the cells between them all Channel or all Land
RefRows(w) ==
    { [x \in 1..w |-> Land] }
    \cup { [x \in 1..w |-> IF x - 1 \in l..r /\ (solid \/ x - 1 \in {l, r})
                            THEN River ELSE Land] :
             l \in 0..(w - 1), r \in 0..(w - 1), solid \in BOOLEAN }

\* every draw of one generateNewRow call (rand.Intn(5) + 2 is 2..6)
AllRowDraws ==
    { d \in [ shift  : {-1, 0, 1},
              adjust : BOOLEAN,
              delta  : {-1, 0, 1},
              branch : BOOLEAN,
              dir    : {1, -1},
              bw     : 2..6 ] :
        /\ ~d.adjust => d.delta = 0
        /\ ~d.branch => (d.dir = 1 /\ d.bw = 2) }

InitRow ==
    /\ \E w \in RowWidths : \E ref \in RefRows(w) :
          m = [initialModel EXCEPT
                 !.state = Playing,
                 !.width = w, !.height = 2 + StatusLines,
                 !.world.Width = w, !.world.Height = 2 + StatusLines,
                 !.world.Terrain = <<ref, ref>>]
    /\ pendingTicks = 0
    /\ fault = FALSE
    /\ ev = "init"

RowScrollTerrain ==
    /\ ev = "init"
    /\ pendingTicks' = pendingTicks
    /\ IF scrollTerrainPanics(m)
       THEN Panic("scrollTerrain")
       ELSE \E d \in AllRowDraws : Return(scrollTerrain(m, d), "scrollTerrain")

NextRow == RowScrollTerrain

SpecRow == InitRow /\ [][NextRow]_vars

---------------------------------------------------------------------------
(* Properties of generateNewRow *)

\* C17: when the reference row has no Channel cell the generated row is the
\* fallback row, whatever is drawn: exactly the cells of columns
\* width/2 - 7 .. width/2 + 7 that lie in the grid are Channel, all others
\* are Land.
C17_FallbackRow ==
    [][ ( /\ ev' = "scrollTerrain" /\ ~fault'
          /\ riverCols(m'.world.Terrain, 0) = {} ) =>
          m'.world.Terrain[2] =
             [ x \in 1..m.width |->
                 IF x - 1 \in (m.width \div 2 - 7)..(m.width \div 2 + 7)
                 THEN River ELSE Land ]
      ]_vars

\* C17 witness: a row has been generated from a reference row of 20 Land
\* cells: it has Channel in columns 3..17 and Land on both sides.
C17_Witness ==
    /\ ev = "scrollTerrain" /\ m.width = 20
    /\ riverCols(m.world.Terrain, 0) = {}
    /\ riverCols(m.world.Terrain, 1) = 3..17

\* C20: when the reference row has Channel cells, leftmost L and rightmost
\* R, a row generated without the width adjustment, without a branch and
\* without clipping at the grid edge has a channel of the same width R-L+1
\* whose center is within 1 of the reference center L+(R-L)/2; and a row
\* generated with the width adjustment (no branch, no clipping) has a channel
\* of at least MinRiverWidth (8) cells.
C20_RowFollowsReference ==
    [][ ( /\ ev' = "scrollTerrain" /\ ~fault'
          /\ riverCols(m'.world.Terrain, 0) # {} ) =>
          LET ref    == riverCols(m'.world.Terrain, 0)
              new    == riverCols(m'.world.Terrain, 1)
              L      == Min(ref)
              R      == Max(ref)
              center == L + (R - L) \div 2
              ctx    == [m EXCEPT !.world.Terrain = <<m'.world.Terrain[1]>>]
              used(d) == IF d.adjust /\ R - L + 1 + d.delta < MinRiverWidth
                         THEN MinRiverWidth ELSE R - L + 1 + d.delta
              unclipped(d) ==
                  /\ center + d.shift - used(d) \div 2 >= 0
                  /\ center + d.shift + used(d) \div 2 <= m.width - 1
          IN  \A d \in AllRowDraws :
                ( /\ m'.world.Terrain[2] = generateNewRow(ctx, d)
                  /\ ~d.branch /\ unclipped(d) ) =>
                    IF d.adjust
                    THEN Cardinality(new) >= MinRiverWidth
                    ELSE /\ Cardinality(new) = R - L + 1
                         /\ new = Min(new)..Max(new)
                         /\ channelCenter(m'.world.Terrain, 1) - center \in -1..1
      ]_vars

---------------------------------------------------------------------------
(* Properties of the placement made by initializeTerrain *)

\* C22: after initializeTerrain on a grid whose row max(height - 5, 0) has a
\* Channel cell, the player is on that row on a Channel cell, for every
\* channel width and every branch.
C22_PlayerPlacedInRiver ==
    LET T       == m.world.Terrain
        playerY == IF Len(T) - 5 < 0 THEN 0 ELSE Len(T) - 5
    IN  ( /\ ev = "initializeTerrain" /\ ~fault
          /\ riverCols(T, playerY) # {} ) =>
            /\ m.world.Player.Y = playerY
            /\ PlayerOnChannel(m)

====
